---- MODULE Spec2Model ----
(***************************************************************************)
(* The password game (olincollege/passwordgame): the rule-gating engine of *)
(* model.py (GameModel), the event handling of controller.py               *)
(* (GameController) and the celebration state of view.py (GameView).       *)
(*                                                                         *)
(* A Python str is a sequence of one-character strings.  The character     *)
(* U+00B2 (SUPERSCRIPT TWO) is written "SUP2": it is one character.        *)
(* Indices stored in the state are Python's (0-based).                     *)
(***************************************************************************)
EXTENDS Integers, Sequences, FiniteSets, TLC

VARIABLES
    password,             \* GameModel.password
    rules,                \* GameModel.rules (the names of the predicates, in order)
    current_rule_index,   \* GameModel.current_rule_index
    satisfied_rules,      \* GameModel.satisfied_rules
    all_rules_satisfied,  \* GameModel.all_rules_satisfied
    last_look_and_say,    \* GameModel.last_look_and_say
    next_look_and_say,    \* GameModel.next_look_and_say
    running,              \* GameController.running
    congratulations,      \* GameView.congratulations
    confetti,             \* len(GameView.confetti)
    pc,                   \* where GameController.run is
    pending,              \* events of the current pygame.event.get() batch not yet handled
    game_over,            \* stdout holds "Inappropriate language detected! Game over."
    las,                  \* the frame of a call of next_look_and_say_sequence
    verdict               \* a call of rule_sum_prime: its argument and outcome

vars == <<password, rules, current_rule_index, satisfied_rules,
          all_rules_satisfied, last_look_and_say, next_look_and_say,
          running, congratulations, confetti, pc, pending, game_over, las,
          verdict>>

-----------------------------------------------------------------------------
(* Bounds of the model.                                                    *)

\* Characters typed beyond a prefix of one of the Scripts.
MaxExtra == 1
\* Events in one batch returned by pygame.event.get().
MaxBatch == 2
\* Celebration frames rendered before the model stops rendering.
MaxFrames == 2
\* Length of the inputs of next_look_and_say_sequence in SpecSeq.
MaxSeqLen == 10

\* Longest argument of rule_sum_prime drawn from SumChars.
MaxRuleLen == 3

-----------------------------------------------------------------------------
(* Python's str and int primitives on the characters of the model.         *)

DecimalDigits == <<"0", "1", "2", "3", "4", "5", "6", "7", "8", "9">>

UpperLetters == {"A", "B", "C", "D", "E", "F", "G", "H", "I", "J", "K", "L", "M",
                 "N", "O", "P", "Q", "R", "S", "T", "U", "V", "W", "X", "Y", "Z"}

LowerLetters == {"a", "b", "c", "d", "e", "f", "g", "h", "i", "j", "k", "l", "m",
                 "n", "o", "p", "q", "r", "s", "t", "u", "v", "w", "x", "y", "z"}

Range(f) == {f[i] : i \in DOMAIN f}

\* str.isdecimal(): the characters int() converts.
isdecimal(c) == \E i \in DOMAIN DecimalDigits : DecimalDigits[i] = c

\* str.isdigit(): the decimal digits and the digit-like characters (U+00B2).
isdigit(c) == isdecimal(c) \/ c = "SUP2"

isupper(c) == c \in UpperLetters

isalpha(c) == c \in UpperLetters \/ c \in LowerLetters

isalnum(c) == isalpha(c) \/ isdigit(c)

\* int(c) of a decimal digit.
int(c) == (CHOOSE i \in DOMAIN DecimalDigits : DecimalDigits[i] = c) - 1

\* int(c) raises ValueError.
int_raises(c) == ~isdecimal(c)

RECURSIVE str(_)
\* str(n) of a natural number.
str(n) == IF n < 10 THEN <<DecimalDigits[n + 1]>>
          ELSE str(n \div 10) \o <<DecimalDigits[(n % 10) + 1]>>

lower_char(c) ==
    CASE c = "A" -> "a" [] c = "B" -> "b" [] c = "C" -> "c" [] c = "D" -> "d"
      [] c = "E" -> "e" [] c = "F" -> "f" [] c = "G" -> "g" [] c = "H" -> "h"
      [] c = "I" -> "i" [] c = "J" -> "j" [] c = "K" -> "k" [] c = "L" -> "l"
      [] c = "M" -> "m" [] c = "N" -> "n" [] c = "O" -> "o" [] c = "P" -> "p"
      [] c = "Q" -> "q" [] c = "R" -> "r" [] c = "S" -> "s" [] c = "T" -> "t"
      [] c = "U" -> "u" [] c = "V" -> "v" [] c = "W" -> "w" [] c = "X" -> "x"
      [] c = "Y" -> "y" [] c = "Z" -> "z" [] OTHER -> c

\* str.lower()
lower(s) == [i \in 1..Len(s) |-> lower_char(s[i])]

\* Python's `sub in s` on strings.
Contains(sub, s) ==
    \E i \in 0..(Len(s) - Len(sub)) : \A j \in 1..Len(sub) : s[i + j] = sub[j]

RECURSIVE join(_)
\* "".join(pieces)
join(pieces) == IF pieces = <<>> THEN <<>> ELSE Head(pieces) \o join(Tail(pieces))

\* sympy.isprime on the naturals.
isprime(n) == n >= 2 /\ \A d \in 2..(n - 1) : n % d # 0

-----------------------------------------------------------------------------
(* GameModel.next_look_and_say_sequence, one loop test per step.           *)

\* The frame at the call: result, i = [], 0.
las_call(sequencex) ==
    [sequencex |-> sequencex, result |-> <<>>, i |-> 0, count |-> 0, at |-> "outer"]

\* No call in progress.
las_idle == [sequencex |-> <<>>, result |-> <<>>, i |-> 0, count |-> 0, at |-> "idle"]

\* Faulty variant of las_step: count starts at 0 instead of 1.
las_step_count_from_zero(f) ==
    IF f.at = "outer"
    THEN IF f.i < Len(f.sequencex)
         THEN [f EXCEPT !.count = 0, !.at = "inner"]
         ELSE [f EXCEPT !.at = "return"]
    ELSE IF f.i + 1 < Len(f.sequencex) /\ f.sequencex[f.i + 1] = f.sequencex[f.i + 2]
         THEN [f EXCEPT !.i = f.i + 1, !.count = f.count + 1]
         ELSE [f EXCEPT !.result = Append(f.result, str(f.count) \o <<f.sequencex[f.i + 1]>>),
                        !.i = f.i + 1,
                        !.at = "outer"]

\* One test of a loop condition and the statements it leads to.
las_step(f) ==
    IF f.at = "outer"
    THEN IF f.i < Len(f.sequencex)
         THEN [f EXCEPT !.count = 1, !.at = "inner"]
         ELSE [f EXCEPT !.at = "return"]
    ELSE IF f.i + 1 < Len(f.sequencex) /\ f.sequencex[f.i + 1] = f.sequencex[f.i + 2]
         THEN [f EXCEPT !.i = f.i + 1, !.count = f.count + 1]
         ELSE [f EXCEPT !.result = Append(f.result, str(f.count) \o <<f.sequencex[f.i + 1]>>),
                        !.i = f.i + 1,
                        !.at = "outer"]

RECURSIVE las_run(_)
las_run(f) == IF f.at = "return" THEN f ELSE las_run(las_step(f))

\* The value the call returns.
next_look_and_say_sequence(sequencex) == join(las_run(las_call(sequencex)).result)

RECURSIVE las_iterate(_, _)
\* for _ in range(num_steps): last = next_look_and_say_sequence(last)
las_iterate(sequencex, num_steps) ==
    IF num_steps = 0 THEN sequencex
    ELSE las_iterate(next_look_and_say_sequence(sequencex), num_steps - 1)

\* random.randint(3, 6)
SeedSteps == 3..6

\* Faulty variant of init_look_and_say: range(num_steps + 1).
init_look_and_say_extra_step(num_steps) ==
    LET last == las_iterate(<<"1">>, num_steps + 1)
    IN  [last_look_and_say |-> last,
         next_look_and_say |-> next_look_and_say_sequence(last)]

\* GameModel.init_look_and_say with num_steps drawn.
init_look_and_say(num_steps) ==
    LET last == las_iterate(<<"1">>, num_steps)
    IN  [last_look_and_say |-> last,
         next_look_and_say |-> next_look_and_say_sequence(last)]

-----------------------------------------------------------------------------
(* The predicates of the catalog: the rule methods of GameModel.           *)

rule_min_length(pw) == Len(pw) >= 5

rule_include_numbers(pw) == \E i \in 1..Len(pw) : isdigit(pw[i])

rule_include_uppercase(pw) == \E i \in 1..Len(pw) : isupper(pw[i])

rule_include_special_character(pw) == \E i \in 1..Len(pw) : ~isalnum(pw[i])

fib_nums == {0, 1, 1, 2, 3, 5, 8, 13, 21, 34, 55, 89, 144, 233, 377, 610, 987}

rule_include_fibonacci(pw) == \E num \in fib_nums : Contains(str(num), pw)

rule_include_morse(pw) == Contains(<<".">>, pw) \/ Contains(<<"-">>, pw)

months ==
    {<<"j", "a", "n", "u", "a", "r", "y">>,
     <<"f", "e", "b", "r", "u", "a", "r", "y">>,
     <<"m", "a", "r", "c", "h">>,
     <<"a", "p", "r", "i", "l">>,
     <<"m", "a", "y">>,
     <<"j", "u", "n", "e">>,
     <<"j", "u", "l", "y">>,
     <<"a", "u", "g", "u", "s", "t">>,
     <<"s", "e", "p", "t", "e", "m", "b", "e", "r">>,
     <<"o", "c", "t", "o", "b", "e", "r">>,
     <<"n", "o", "v", "e", "m", "b", "e", "r">>,
     <<"d", "e", "c", "e", "m", "b", "e", "r">>}

rule_include_month(pw) ==
    LET lowered == lower(pw)
    IN  \E month \in months : Contains(month, lowered)

\* lambda password: self.next_look_and_say in password
rule_look_and_say(next, pw) == Contains(next, pw)

roman_numerals == {"I", "V", "X", "L", "C", "D", "M"}

rule_include_roman_numeral(pw) == \E numeral \in roman_numerals : Contains(<<numeral>>, pw)

RECURSIVE sum_digits(_)
\* sum(int(c) for c in password if c.isdigit()), when no int(c) raises
sum_digits(pw) ==
    IF pw = <<>> THEN 0
    ELSE (IF isdecimal(Head(pw)) THEN int(Head(pw)) ELSE 0) + sum_digits(Tail(pw))

\* rule_sum_prime raises ValueError: int(c) of a character that isdigit() accepts
\* and int() does not convert.
rule_sum_prime_raises(pw) == \E i \in 1..Len(pw) : isdigit(pw[i]) /\ int_raises(pw[i])

\* The value rule_sum_prime returns when it returns.
rule_sum_prime(pw) == isprime(sum_digits(pw))

\* No call of rule_sum_prime was made.
no_verdict == [password |-> <<>>, outcome |-> "none"]

\* The call rule_sum_prime(pw) with what it returns or raises.
rule_sum_prime_call(pw) ==
    [password |-> pw,
     outcome |-> IF rule_sum_prime_raises(pw) THEN "ValueError"
                 ELSE IF rule_sum_prime(pw) THEN "True" ELSE "False"]

rule_chess_sicilian_defense(pw) == Contains(<<"c", "5">>, pw)

\* self.rules after __init__
RuleCatalog ==
    <<"rule_min_length", "rule_include_numbers", "rule_include_uppercase",
      "rule_include_special_character", "rule_include_fibonacci",
      "rule_include_morse", "rule_include_month", "rule_look_and_say",
      "rule_include_roman_numeral", "rule_sum_prime",
      "rule_chess_sicilian_defense">>

\* rule(self.password) returns (does not raise).
rule_returns(rule, pw) == rule = "rule_sum_prime" => ~rule_sum_prime_raises(pw)

\* The value of rule(self.password) for a rule of self.rules.
rule_value(rule, next, pw) ==
    CASE rule = "rule_min_length" -> rule_min_length(pw)
      [] rule = "rule_include_numbers" -> rule_include_numbers(pw)
      [] rule = "rule_include_uppercase" -> rule_include_uppercase(pw)
      [] rule = "rule_include_special_character" -> rule_include_special_character(pw)
      [] rule = "rule_include_fibonacci" -> rule_include_fibonacci(pw)
      [] rule = "rule_include_morse" -> rule_include_morse(pw)
      [] rule = "rule_include_month" -> rule_include_month(pw)
      [] rule = "rule_look_and_say" -> rule_look_and_say(next, pw)
      [] rule = "rule_include_roman_numeral" -> rule_include_roman_numeral(pw)
      [] rule = "rule_sum_prime" -> rule_sum_prime(pw)
      [] rule = "rule_chess_sicilian_defense" -> rule_chess_sicilian_defense(pw)

-----------------------------------------------------------------------------
(* GameModel: the object is the record of its attributes.                  *)

\* self.messages after __init__: plain string literals, each a sequence of
\* its characters.  The eighth is not an f-string: its braces and the name
\* between them are characters of the message.
messages ==
    <<
      \* "Password must be at least 5 characters long."
      <<"P", "a", "s", "s", "w", "o", "r", "d", " ", "m", "u", "s", "t", " ",
        "b", "e", " ", "a", "t", " ", "l", "e", "a", "s", "t", " ", "5", " ",
        "c", "h", "a", "r", "a", "c", "t", "e", "r", "s", " ", "l", "o", "n",
        "g", ".">>,
      \* "Password must include a number."
      <<"P", "a", "s", "s", "w", "o", "r", "d", " ", "m", "u", "s", "t", " ",
        "i", "n", "c", "l", "u", "d", "e", " ", "a", " ", "n", "u", "m", "b",
        "e", "r", ".">>,
      \* "Password must include an uppercase letter."
      <<"P", "a", "s", "s", "w", "o", "r", "d", " ", "m", "u", "s", "t", " ",
        "i", "n", "c", "l", "u", "d", "e", " ", "a", "n", " ", "u", "p", "p",
        "e", "r", "c", "a", "s", "e", " ", "l", "e", "t", "t", "e", "r", ".">>,
      \* "Password must include a special character."
      <<"P", "a", "s", "s", "w", "o", "r", "d", " ", "m", "u", "s", "t", " ",
        "i", "n", "c", "l", "u", "d", "e", " ", "a", " ", "s", "p", "e", "c",
        "i", "a", "l", " ", "c", "h", "a", "r", "a", "c", "t", "e", "r", ".">>,
      \* "Password must include a number from the Fibonacci sequence."
      <<"P", "a", "s", "s", "w", "o", "r", "d", " ", "m", "u", "s", "t", " ",
        "i", "n", "c", "l", "u", "d", "e", " ", "a", " ", "n", "u", "m", "b",
        "e", "r", " ", "f", "r", "o", "m", " ", "t", "h", "e", " ", "F", "i",
        "b", "o", "n", "a", "c", "c", "i", " ", "s", "e", "q", "u", "e", "n",
        "c", "e", ".">>,
      \* "Include a Morse code character."
      <<"I", "n", "c", "l", "u", "d", "e", " ", "a", " ", "M", "o", "r", "s",
        "e", " ", "c", "o", "d", "e", " ", "c", "h", "a", "r", "a", "c", "t",
        "e", "r", ".">>,
      \* "Your password must include a month of the year."
      <<"Y", "o", "u", "r", " ", "p", "a", "s", "s", "w", "o", "r", "d", " ",
        "m", "u", "s", "t", " ", "i", "n", "c", "l", "u", "d", "e", " ", "a",
        " ", "m", "o", "n", "t", "h", " ", "o", "f", " ", "t", "h", "e", " ",
        "y", "e", "a", "r", ".">>,
      \* "Enter the next sequence in Look-and-Say after {self.last_look_and_say}"
      <<"E", "n", "t", "e", "r", " ", "t", "h", "e", " ", "n", "e", "x", "t",
        " ", "s", "e", "q", "u", "e", "n", "c", "e", " ", "i", "n", " ", "L",
        "o", "o", "k", "-", "a", "n", "d", "-", "S", "a", "y", " ", "a", "f",
        "t", "e", "r", " ", "{", "s", "e", "l", "f", ".", "l", "a", "s", "t",
        "_", "l", "o", "o", "k", "_", "a", "n", "d", "_", "s", "a", "y", "}">>,
      \* "Your password must include a Roman numeral."
      <<"Y", "o", "u", "r", " ", "p", "a", "s", "s", "w", "o", "r", "d", " ",
        "m", "u", "s", "t", " ", "i", "n", "c", "l", "u", "d", "e", " ", "a",
        " ", "R", "o", "m", "a", "n", " ", "n", "u", "m", "e", "r", "a", "l",
        ".">>,
      \* "The sum of all numbers in the password must be a prime number."
      <<"T", "h", "e", " ", "s", "u", "m", " ", "o", "f", " ", "a", "l", "l",
        " ", "n", "u", "m", "b", "e", "r", "s", " ", "i", "n", " ", "t", "h",
        "e", " ", "p", "a", "s", "s", "w", "o", "r", "d", " ", "m", "u", "s",
        "t", " ", "b", "e", " ", "a", " ", "p", "r", "i", "m", "e", " ", "n",
        "u", "m", "b", "e", "r", ".">>,
      \* "Respond to e4 with the Sicilian Defense."
      <<"R", "e", "s", "p", "o", "n", "d", " ", "t", "o", " ", "e", "4", " ",
        "w", "i", "t", "h", " ", "t", "h", "e", " ", "S", "i", "c", "i", "l",
        "i", "a", "n", " ", "D", "e", "f", "e", "n", "s", "e", ".">>
    >>

\* GameView.draw_rules: the message drawn for the unsatisfied rule.
current_message(model) == messages[model.current_rule_index + 1]

\* GameModel.__init__ with the seed drawn in init_look_and_say.
GameModel_init(num_steps) ==
    LET seed == init_look_and_say(num_steps)
    IN  [password |-> <<>>,
         last_look_and_say |-> seed.last_look_and_say,
         next_look_and_say |-> seed.next_look_and_say,
         rules |-> RuleCatalog,
         current_rule_index |-> 0,
         satisfied_rules |-> <<>>,
         all_rules_satisfied |-> FALSE]

RECURSIVE update_rules_loop_no_break(_, _)
\* Faulty variant of update_rules_loop: the `break` is missing.
update_rules_loop_no_break(self, index) ==
    IF index >= Len(self.rules)
    THEN [self |-> self, raised |-> FALSE]
    ELSE LET rule == self.rules[index + 1]
         IN  IF ~rule_returns(rule, self.password)
             THEN [self |-> self, raised |-> TRUE]
             ELSE IF rule_value(rule, self.next_look_and_say, self.password)
                  THEN update_rules_loop_no_break(
                           [self EXCEPT !.satisfied_rules = Append(@, index)],
                           index + 1)
                  ELSE update_rules_loop_no_break(
                           [self EXCEPT !.current_rule_index = index],
                           index + 1)

RECURSIVE update_rules_loop(_, _)
\* The for loop of update_rules from the rule at `index` on.  The result pairs
\* the object with whether a rule raised (the exception leaves update_rules).
update_rules_loop(self, index) ==
    IF index >= Len(self.rules)
    THEN [self |-> self, raised |-> FALSE]
    ELSE LET rule == self.rules[index + 1]
         IN  IF ~rule_returns(rule, self.password)
             THEN [self |-> self, raised |-> TRUE]
             ELSE IF rule_value(rule, self.next_look_and_say, self.password)
                  THEN update_rules_loop(
                           [self EXCEPT !.satisfied_rules = Append(@, index)],
                           index + 1)
                  ELSE [self |-> [self EXCEPT !.current_rule_index = index],
                        raised |-> FALSE]

\* Faulty variant of update_rules: all_rules_satisfied is taken from
\* current_rule_index, as check_password does.
update_rules_flag_from_index(self) ==
    LET reset == [self EXCEPT !.satisfied_rules = <<>>, !.current_rule_index = 0]
        loop == update_rules_loop(reset, 0)
    IN  IF loop.raised
        THEN [self |-> loop.self, raised |-> TRUE]
        ELSE [self |-> [loop.self EXCEPT !.all_rules_satisfied =
                            (loop.self.current_rule_index >= Len(loop.self.rules))],
              raised |-> FALSE]

\* Faulty variant of update_rules: satisfied_rules is not emptied first.
update_rules_no_reset(self) ==
    LET reset == [self EXCEPT !.current_rule_index = 0]
        loop == update_rules_loop(reset, 0)
    IN  IF loop.raised
        THEN [self |-> loop.self, raised |-> TRUE]
        ELSE [self |-> [loop.self EXCEPT !.all_rules_satisfied =
                            (Len(loop.self.satisfied_rules) = Len(loop.self.rules))],
              raised |-> FALSE]

\* GameModel.update_rules
update_rules(self) ==
    LET reset == [self EXCEPT !.satisfied_rules = <<>>, !.current_rule_index = 0]
        loop == update_rules_loop(reset, 0)
    IN  IF loop.raised
        THEN [self |-> loop.self, raised |-> TRUE]
        ELSE [self |-> [loop.self EXCEPT !.all_rules_satisfied =
                            (Len(loop.self.satisfied_rules) = Len(loop.self.rules))],
              raised |-> FALSE]

\* GameModel.check_password
check_password(self) == self.current_rule_index >= Len(self.rules)

-----------------------------------------------------------------------------
(* GameView: the attributes the celebration changes.                       *)

\* GameView.__init__
GameView_init == [congratulations |-> FALSE, confetti |-> 0]

\* self.confetti_count = 50
confetti_count == 50

\* GameView.start_celebration
start_celebration(view) ==
    [view EXCEPT !.congratulations = TRUE, !.confetti = @ + confetti_count]

\* GameView.draw_rules: only the celebration changes the view.
draw_rules(view, model) ==
    IF model.all_rules_satisfied THEN start_celebration(view) ELSE view

\* GameView.render: draw_celebration and draw_input_box change no attribute.
render(view, model) ==
    LET first == IF view.congratulations THEN view ELSE draw_rules(view, model)
    IN  draw_rules(first, model)

-----------------------------------------------------------------------------
(* GameController.handle_events, one event of the batch at a time.         *)

\* The punctuation the controller accepts besides alphanumerics.
AllowedPunctuation ==
    {"-", "_", "!", "@", "#", "$", "%", "^", "&", "*", "(", ")", "=", "+",
     "[", "]", "{", "}", ";", ":", "'", "\"", ",", "<", ".", ">", "/", "?", "|"}

\* Faulty variant of char_accepted: the space is in the set.
char_accepted_with_space(char) ==
    char # "" /\ (isalnum(char) \/ char \in AllowedPunctuation \/ char = " ")

\* char.isalnum() or char in {...}; event.unicode may be the empty string.
char_accepted(char) == char # "" /\ (isalnum(char) \/ char \in AllowedPunctuation)

\* The object and flags after one event; `crashed` is an exception leaving
\* handle_events.
Outcome(model, run, crashed) ==
    [model |-> model, running |-> run, crashed |-> crashed, game_over |-> FALSE]

\* print("Inappropriate language detected! Game over."); self.running = False
GameOver(model) ==
    [model |-> model, running |-> FALSE, crashed |-> FALSE, game_over |-> TRUE]

\* event.type == pygame.QUIT
on_quit(model, run) == Outcome(model, FALSE, FALSE)

\* event.key == pygame.K_RETURN.  all_rules_satisfied is a bool: calling it
\* raises TypeError.
on_return(model, run) ==
    IF check_password(model)
    THEN Outcome(model, FALSE, TRUE)
    ELSE Outcome(model, run, FALSE)

\* Faulty variant of on_backspace: update_rules is not called.
on_backspace_no_update(model, run) ==
    IF model.password # <<>>
    THEN Outcome([model EXCEPT !.password = SubSeq(@, 1, Len(@) - 1)], run, FALSE)
    ELSE Outcome(model, run, FALSE)

\* Faulty variant of on_backspace: password[1:] instead of password[:-1].
on_backspace_drop_first(model, run) ==
    IF model.password # <<>>
    THEN LET cut == [model EXCEPT !.password = Tail(@)]
             upd == update_rules(cut)
         IN  Outcome(upd.self, run, upd.raised)
    ELSE Outcome(model, run, FALSE)

\* event.key == pygame.K_BACKSPACE
on_backspace(model, run) ==
    IF model.password # <<>>
    THEN LET cut == [model EXCEPT !.password = SubSeq(@, 1, Len(@) - 1)]
             upd == update_rules(cut)
         IN  Outcome(upd.self, run, upd.raised)
    ELSE Outcome(model, run, FALSE)

\* Faulty variant of on_char: the flagged password is committed before the
\* session ends.
on_char_commit_flagged(model, run, char, flagged) ==
    IF char_accepted(char)
    THEN LET new_password == Append(model.password, char)
             upd == update_rules([model EXCEPT !.password = new_password])
         IN  IF flagged
             THEN GameOver(upd.self)
             ELSE Outcome(upd.self, run, upd.raised)
    ELSE Outcome(model, run, FALSE)

\* Faulty variant of on_char: the password is committed and update_rules is
\* not called.
on_char_no_update(model, run, char, flagged) ==
    IF char_accepted(char)
    THEN LET new_password == Append(model.password, char)
         IN  IF flagged
             THEN GameOver(model)
             ELSE Outcome([model EXCEPT !.password = new_password], run, FALSE)
    ELSE Outcome(model, run, FALSE)

\* Any other key: char = event.unicode; `flagged` is the answer of
\* profanity.contains_profanity(new_password).
on_char(model, run, char, flagged) ==
    IF char_accepted(char)
    THEN LET new_password == Append(model.password, char)
         IN  IF flagged
             THEN GameOver(model)
             ELSE LET upd == update_rules([model EXCEPT !.password = new_password])
                  IN  Outcome(upd.self, run, upd.raised)
    ELSE Outcome(model, run, FALSE)

-----------------------------------------------------------------------------
(* The inputs of the model.                                                *)

\* Passwords the player types towards.
Scripts ==
    {<<"M", "a", "y", ".", "1", "1", "1", "2", "2", "1", "c", "5">>,
     <<"M", "a", "y", ".", "3", "1", "2", "2", "1", "1", "c", "5", "2">>,
     <<"M", "a", "y", ".", "1", "3", "1", "1", "2", "2", "2", "1", "c", "5", "1">>,
     <<"M", "a", "y", ".", "1", "1", "1", "3", "2", "1", "3", "2", "1", "1", "c", "5", "2">>,
     <<"a", "b", "c", "d", "e">>,
     <<"a", "b", "c", "d", "1">>,
     <<"a", "b", "c", "1", "M">>,
     <<"a", "b", "4", "M", "!">>,
     <<"a", "b", "1", "M", "!">>,
     <<"a", "1", "M", ".", "b">>,
     <<"A", "m", "a", "y", ".", "1", "1", "1", "2", "2", "1">>}

\* event.unicode of the keys pressed off script.
Keys == {"SUP2", " ", ""}

ScriptChars == UNION {Range(s) : s \in Scripts}

\* A prefix of a script followed by at most MaxExtra characters of Keys.
TypablePasswords ==
    {SubSeq(s, 1, n) \o extra :
        <<s, n>> \in {<<s, n>> \in Scripts \X (0..20) : n <= Len(s)},
        extra \in UNION {[1..k -> Keys] : k \in 0..MaxExtra}}

Typable(pw) == pw \in TypablePasswords

-----------------------------------------------------------------------------
(* The session: main.py and GameController.run.                            *)

Self ==
    [password |-> password,
     last_look_and_say |-> last_look_and_say,
     next_look_and_say |-> next_look_and_say,
     rules |-> rules,
     current_rule_index |-> current_rule_index,
     satisfied_rules |-> satisfied_rules,
     all_rules_satisfied |-> all_rules_satisfied]

View == [congratulations |-> congratulations, confetti |-> confetti]

SetModel(m) ==
    /\ password' = m.password
    /\ last_look_and_say' = m.last_look_and_say
    /\ next_look_and_say' = m.next_look_and_say
    /\ rules' = m.rules
    /\ current_rule_index' = m.current_rule_index
    /\ satisfied_rules' = m.satisfied_rules
    /\ all_rules_satisfied' = m.all_rules_satisfied

modelVars == <<password, rules, current_rule_index, satisfied_rules,
               all_rules_satisfied, last_look_and_say, next_look_and_say>>

viewVars == <<congratulations, confetti>>

\* The frames of the functions called on their own.
unitVars == <<las, verdict>>

\* main.py: GameModel(), GameView(model), GameController(model, view), run().
Init ==
    /\ \E num_steps \in SeedSteps :
         LET m == GameModel_init(num_steps)
         IN  /\ password = m.password
             /\ last_look_and_say = m.last_look_and_say
             /\ next_look_and_say = m.next_look_and_say
             /\ rules = m.rules
             /\ current_rule_index = m.current_rule_index
             /\ satisfied_rules = m.satisfied_rules
             /\ all_rules_satisfied = m.all_rules_satisfied
    /\ running = TRUE
    /\ congratulations = GameView_init.congratulations
    /\ confetti = GameView_init.confetti
    /\ pc = "render"
    /\ pending = 0
    /\ game_over = FALSE
    /\ las = las_idle
    /\ verdict = no_verdict

\* self.view.render(), then pygame.event.get() returns a batch.
Render ==
    /\ pc = "render"
    /\ confetti <= confetti_count * MaxFrames
    /\ LET v == render(View, Self)
       IN  /\ congratulations' = v.congratulations
           /\ confetti' = v.confetti
    /\ \E n \in 0..MaxBatch : pending' = n
    /\ pc' = "handle_events"
    /\ UNCHANGED <<modelVars, running, game_over, unitVars>>

\* The effect of one event of the batch.
Handle(out) ==
    /\ SetModel(out.model)
    /\ running' = out.running
    /\ pc' = IF out.crashed THEN "crashed" ELSE pc
    /\ pending' = pending - 1
    /\ game_over' = (game_over \/ out.game_over)
    /\ UNCHANGED <<viewVars, unitVars>>

Quit ==
    /\ pc = "handle_events" /\ pending > 0
    /\ Handle(on_quit(Self, running))

Return ==
    /\ pc = "handle_events" /\ pending > 0
    /\ Handle(on_return(Self, running))

Backspace ==
    /\ pc = "handle_events" /\ pending > 0
    /\ Handle(on_backspace(Self, running))

\* A KEYDOWN event of another key, with its event.unicode and the answer of
\* the profanity check.
TypeCharOf(char, flagged) ==
    /\ pc = "handle_events" /\ pending > 0
    /\ char_accepted(char) => Typable(Append(password, char))
    /\ \E out \in {on_char(Self, running, char, flagged)} : Handle(out)

TypeChar == \E char \in Keys \cup ScriptChars : \E flagged \in BOOLEAN : TypeCharOf(char, flagged)

\* An event that is neither QUIT nor KEYDOWN.
OtherEvent ==
    /\ pc = "handle_events" /\ pending > 0
    /\ pending' = pending - 1
    /\ UNCHANGED <<modelVars, viewVars, running, pc, game_over, unitVars>>

\* The batch is handled: clock.tick, then the test of `while self.running`.
LoopTest ==
    /\ pc = "handle_events" /\ pending = 0
    /\ pc' = IF running THEN "render" ELSE "exit"
    /\ UNCHANGED <<modelVars, viewVars, running, pending, game_over, unitVars>>

Next == Render \/ Quit \/ Return \/ Backspace \/ TypeChar \/ OtherEvent \/ LoopTest

Spec == Init /\ [][Next]_vars

-----------------------------------------------------------------------------
(* next_look_and_say_sequence called on its own, on every input up to      *)
(* MaxSeqLen digits.                                                       *)

SeqDigits == {"1", "2"}

SeqInputs == UNION {[1..n -> SeqDigits] : n \in 1..MaxSeqLen}

InitSeq ==
    /\ \E sequencex \in SeqInputs : las = las_call(sequencex)
    /\ LET m == GameModel_init(3)
       IN  /\ password = m.password
           /\ last_look_and_say = m.last_look_and_say
           /\ next_look_and_say = m.next_look_and_say
           /\ rules = m.rules
           /\ current_rule_index = m.current_rule_index
           /\ satisfied_rules = m.satisfied_rules
           /\ all_rules_satisfied = m.all_rules_satisfied
    /\ running = FALSE
    /\ congratulations = FALSE
    /\ confetti = 0
    /\ pc = "sequence"
    /\ pending = 0
    /\ game_over = FALSE
    /\ verdict = no_verdict

SeqStep ==
    /\ las.at \in {"outer", "inner"}
    /\ las' = las_step(las)
    /\ UNCHANGED <<modelVars, viewVars, running, pc, pending, game_over, verdict>>

NextSeq == SeqStep

SpecSeq == InitSeq /\ [][NextSeq]_vars /\ WF_vars(SeqStep)

-----------------------------------------------------------------------------
(* rule_sum_prime called on its own, as test.py calls it, on every string  *)
(* of up to MaxRuleLen characters of SumChars and on the string of         *)
(* test_rule_sum_prime_large_numbers.                                      *)

SumChars == {"1", "2", "7", "a", "SUP2"}

SumInputs ==
    UNION {[1..n -> SumChars] : n \in 0..MaxRuleLen}
        \cup {<<"a", "b", "c", "9", "7", "8", "9", "7", "7">>}

InitSum ==
    /\ \E pw \in SumInputs : verdict = [password |-> pw, outcome |-> "none"]
    /\ LET m == GameModel_init(3)
       IN  /\ password = m.password
           /\ last_look_and_say = m.last_look_and_say
           /\ next_look_and_say = m.next_look_and_say
           /\ rules = m.rules
           /\ current_rule_index = m.current_rule_index
           /\ satisfied_rules = m.satisfied_rules
           /\ all_rules_satisfied = m.all_rules_satisfied
    /\ running = FALSE
    /\ congratulations = FALSE
    /\ confetti = 0
    /\ pc = "rule_sum_prime"
    /\ pending = 0
    /\ game_over = FALSE
    /\ las = las_idle

SumCall ==
    /\ pc = "rule_sum_prime"
    /\ verdict.outcome = "none"
    /\ verdict' = rule_sum_prime_call(verdict.password)
    /\ UNCHANGED <<modelVars, viewVars, running, pc, pending, game_over, las>>

NextSum == SumCall

SpecSumPrime == InitSum /\ [][NextSum]_vars

-----------------------------------------------------------------------------
(* A player who types a password built for the seed of the session, one    *)
(* key per event, no key flagged by the profanity check.                   *)

\* The script built around the sequence the session asks for: "May.", the
\* sequence, "c5" and at most one more digit.
WinningScript(next) ==
    CHOOSE s \in Scripts :
        \E pad \in {<<>>, <<"1">>, <<"2">>} :
            s = <<"M", "a", "y", ".">> \o next \o <<"c", "5">> \o pad

\* render(), then a batch of at least one event.
RenderWin == Render /\ pending' >= 1

\* The next key of the script.
WinKey ==
    /\ Len(password) < Len(WinningScript(next_look_and_say))
    /\ password = SubSeq(WinningScript(next_look_and_say), 1, Len(password))
    /\ \E char \in {WinningScript(next_look_and_say)[Len(password) + 1]} :
         TypeCharOf(char, FALSE)

\* The script is typed: the events that follow are not key presses.
WinIdle ==
    /\ password = WinningScript(next_look_and_say)
    /\ OtherEvent

NextWin == RenderWin \/ WinKey \/ WinIdle \/ LoopTest

\* run() keeps taking the steps of its loop while self.running.
SpecWin == Init /\ [][NextWin]_vars /\ WF_vars(NextWin)

-----------------------------------------------------------------------------
(* Properties.                                                             *)

Engine(m) == <<m.current_rule_index, m.satisfied_rules, m.all_rules_satisfied>>

\* The predicate holds on pw: it returns, and returns True.
RuleHolds(rule, pw) == rule_returns(rule, pw) /\ rule_value(rule, next_look_and_say, pw)

\* The 0-based indices of the rules that do not hold on pw.
FailingIndices(pw) == {i \in 0..(Len(rules) - 1) : ~RuleHolds(rules[i + 1], pw)}

FirstFailingIndex(pw) ==
    IF FailingIndices(pw) = {} THEN Len(rules)
    ELSE CHOOSE i \in FailingIndices(pw) : \A j \in FailingIndices(pw) : i <= j

AllRulesHold(pw) == FailingIndices(pw) = {}

\* update_rules has returned on the current password (or has not been called yet).
Evaluated == pc # "crashed"

\* C1: after update_rules, current_rule_index is the index of the first rule
\* whose predicate fails on the password, and len(rules) when every predicate holds.
C1_IndexIsFirstFailing ==
    Evaluated => current_rule_index = FirstFailingIndex(password)

\* C2: satisfied_rules is exactly the list 0..current_rule_index-1.
C2_SatisfiedIsPrefix ==
    Evaluated => satisfied_rules = [i \in 1..current_rule_index |-> i - 1]

\* C3: check_password() returns True exactly when all_rules_satisfied is True:
\* all_rules_satisfied holds iff current_rule_index == len(rules).
C3_CheckPasswordIffAllSatisfied ==
    Evaluated =>
        /\ check_password(Self) <=> all_rules_satisfied
        /\ all_rules_satisfied <=> (current_rule_index = Len(rules))

\* C4: after update_rules, all_rules_satisfied is True iff every one of the 11
\* predicates holds on the current password.
C4_AllSatisfiedIffAllHold ==
    Evaluated => (all_rules_satisfied <=> AllRulesHold(password))

C4_Witness ==
    /\ Evaluated
    /\ all_rules_satisfied
    /\ rule_chess_sicilian_defense(password)
    /\ Len(rules) = 11

\* C5: whenever the controller has finished handling an event, and initially,
\* the engine state equals what update_rules computes from the current password.
C5_EngineNotStale ==
    Evaluated =>
        /\ ~update_rules(Self).raised
        /\ Engine(Self) = Engine(update_rules(Self).self)

C5_Witness ==
    /\ pc = "render"
    /\ password # <<>>
    /\ current_rule_index = 2
    /\ satisfied_rules = <<0, 1>>

\* Engine states a call of update_rules may start from.
EnginesBefore ==
    {<<0, <<>>, FALSE>>,
     <<3, <<0, 1, 2>>, FALSE>>,
     <<0, <<0, 1, 2, 3, 4, 5, 6, 7, 8, 9, 10>>, TRUE>>}

WithEngine(m, e) ==
    [m EXCEPT !.current_rule_index = e[1],
              !.satisfied_rules = e[2],
              !.all_rules_satisfied = e[3]]

\* C6: the state update_rules leaves depends only on the password and the seed,
\* not on the engine state before the call; a second call changes nothing; the
\* password, the seed and the catalog are left alone.
C6_UpdateRulesFromScratch ==
    Evaluated =>
        \A e \in EnginesBefore :
            LET once == update_rules(WithEngine(Self, e))
                twice == update_rules(once.self)
            IN  /\ ~once.raised
                /\ once.self = Self
                /\ twice = once

C6_Witness ==
    /\ Evaluated
    /\ current_rule_index = 7
    /\ Engine(Self) \notin EnginesBefore
    /\ Len(password) > 5

\* C7: a password that fails rule 1 (fewer than 5 characters) has
\* current_rule_index 0, no satisfied rule, all_rules_satisfied False and
\* check_password() False, whichever later predicates hold on it.
C7_ShortPasswordGatesAtZero ==
    Len(password) < 5 =>
        /\ current_rule_index = 0
        /\ satisfied_rules = <<>>
        /\ all_rules_satisfied = FALSE
        /\ ~check_password(Self)

C7_Witness ==
    /\ Len(password) < 5
    /\ rule_include_special_character(password)
    /\ rule_include_morse(password)
    /\ rule_include_month(password)
    /\ rule_include_roman_numeral(password)
    /\ pc = "render"

\* C8: no predicate of the catalog raises on a password the controller builds,
\* so no update_rules call raises.
C8_NoRuleRaises ==
    /\ pc # "crashed"
    /\ ~update_rules(Self).raised

\* The maximal run of s that starts at position j ends at RunEnd(s, j).
RunEnd(s, j) ==
    CHOOSE e \in j..Len(s) :
        /\ \A k \in j..e : s[k] = s[j]
        /\ e = Len(s) \/ s[e + 1] # s[j]

RECURSIVE EncodeRunsFrom(_, _)
\* The runs of s from position j on: each run's length in decimal, then its character.
EncodeRunsFrom(s, j) ==
    IF j > Len(s) THEN <<>>
    ELSE LET e == RunEnd(s, j)
         IN  str(e - j + 1) \o <<s[j]>> \o EncodeRunsFrom(s, e + 1)

\* C9: next_look_and_say_sequence(s) terminates on every non-empty digit string
\* and returns the run-length encoding of s.
C9_LookAndSayIsRunLengthEncoding ==
    <>(las.at = "return" /\ join(las.result) = EncodeRunsFrom(las.sequencex, 1))

C9_Witness ==
    /\ las.at = "return"
    /\ las.sequencex = <<"1", "2", "1", "1">>
    /\ join(las.result) = <<"1", "1", "1", "2", "2", "1">>

\* The terms of the look-and-say series after 3, 4, 5 and 6 steps from "1",
\* each with the term that follows it.
SeedTerms ==
    {<<<<"1", "2", "1", "1">>, <<"1", "1", "1", "2", "2", "1">>>>,
     <<<<"1", "1", "1", "2", "2", "1">>, <<"3", "1", "2", "2", "1", "1">>>>,
     <<<<"3", "1", "2", "2", "1", "1">>, <<"1", "3", "1", "1", "2", "2", "2", "1">>>>,
     <<<<"1", "3", "1", "1", "2", "2", "2", "1">>,
       <<"1", "1", "1", "3", "2", "1", "3", "2", "1", "1">>>>}

\* C10: last_look_and_say is the term reached after 3 to 6 steps from "1",
\* next_look_and_say is one further step, and no event or update_rules call
\* changes either of them or the catalog.
C10_SeedFixed ==
    /\ [](/\ <<last_look_and_say, next_look_and_say>> \in SeedTerms
          /\ next_look_and_say = next_look_and_say_sequence(last_look_and_say)
          /\ rules = RuleCatalog)
    /\ [][/\ last_look_and_say' = last_look_and_say
          /\ next_look_and_say' = next_look_and_say
          /\ rules' = rules]_vars

C10_Witness ==
    /\ last_look_and_say = <<"1", "3", "1", "1", "2", "2", "2", "1">>
    /\ next_look_and_say = <<"1", "1", "1", "3", "2", "1", "3", "2", "1", "1">>
    /\ Len(password) > 5
    /\ current_rule_index = 7
    /\ pc = "render"

\* C11: a Backspace event removes exactly the last character of a non-empty
\* password and re-evaluates the rules; on the empty password it changes neither
\* the password nor the engine state.
C11_BackspaceRemovesLast ==
    [][Backspace =>
         IF password # <<>>
         THEN /\ password' = SubSeq(password, 1, Len(password) - 1)
              /\ pc' # "crashed"
              /\ Engine(Self') = Engine(update_rules(Self').self)
              /\ UNCHANGED <<last_look_and_say, next_look_and_say, rules, running>>
         ELSE UNCHANGED <<modelVars, viewVars, running>>]_vars

\* The celebration has started and the last character of the winning password
\* has been removed.
C11_Witness ==
    /\ congratulations
    /\ password = <<"M", "a", "y", ".", "1", "1", "1", "2", "2", "1", "c">>
    /\ next_look_and_say = <<"1", "1", "1", "2", "2", "1">>
    /\ current_rule_index = 9

\* The characters the claim lets through: alphanumerics and the punctuation set.
Admissible(char) == isalnum(char) \/ char \in AllowedPunctuation

\* C12: a step that handles the key of a rejected character leaves the
\* password, the engine state and the running flag unchanged; a step that
\* handles an accepted, unflagged character appends it as one character at the
\* end of the password.
C12_OnlyAcceptedCharsAppended ==
    [][\A char \in Keys \cup ScriptChars :
         IF Admissible(char)
         THEN password' = Append(password, char) \/ ~TypeCharOf(char, FALSE)
         ELSE UNCHANGED <<modelVars, running>>
                  \/ \A flagged \in BOOLEAN : ~TypeCharOf(char, flagged)]_vars

C12_Witness ==
    /\ password = <<"a", "b", "c", "SUP2">>
    /\ pc = "handle_events"
    /\ running

\* C13: when the profanity check flags the prospective password, running
\* becomes False and the password and the engine state keep their values.
C13_FlaggedEndsWithoutCommit ==
    [][\A char \in Keys \cup ScriptChars :
         (Admissible(char) /\ TypeCharOf(char, TRUE)) =>
             running' = FALSE /\ UNCHANGED modelVars]_vars

C13_Witness ==
    /\ game_over
    /\ ~running
    /\ Len(password) >= 5
    /\ current_rule_index = 7

RECURSIVE DecimalDigitSum(_, _)
\* The sum of the values of the decimal digits among the first n characters.
DecimalDigitSum(pw, n) ==
    IF n = 0 THEN 0
    ELSE DecimalDigitSum(pw, n - 1)
             + (IF \E d \in 0..9 : str(d) = <<pw[n]>>
                THEN CHOOSE d \in 0..9 : str(d) = <<pw[n]>> ELSE 0)

\* C14: rule_sum_prime(password) is True exactly when the sum of the decimal
\* digits of the password is prime.
C14_SumPrimeIffDecimalSumPrime ==
    verdict.outcome # "none" =>
        (verdict.outcome = "True"
            <=> isprime(DecimalDigitSum(verdict.password, Len(verdict.password))))

\* C15: the message shown for the look-and-say rule (index 7) contains the
\* text of the session's last_look_and_say.
C15_MessageShowsLastLookAndSay ==
    (Evaluated /\ ~all_rules_satisfied /\ current_rule_index = 7)
        => Contains(last_look_and_say, current_message(Self))

\* C16: Return on a password that satisfies all the rules ends the loop
\* without raising; Return on any other password changes neither running nor
\* the model.
C16_ReturnAcceptsWinningPassword ==
    [][Return =>
         IF AllRulesHold(password)
         THEN running' = FALSE /\ pc' # "crashed"
         ELSE UNCHANGED <<running, modelVars>>]_vars

\* C17: the view never holds more than confetti_count pieces of confetti.
C17_ConfettiLimited == confetti <= confetti_count

\* C18: a frame is rendered with the celebration only if all the rules are
\* satisfied by the password it renders.
C18_CelebrationOnlyWhenSatisfied ==
    [][Render => (congratulations' => all_rules_satisfied)]_vars

\* C19: once running is False the model is never changed again.
C19_NoCommitAfterEnd == [][~running => UNCHANGED modelVars]_vars

\* The session is won with a password of characters the controller accepts.
Won ==
    /\ all_rules_satisfied
    /\ running
    /\ pc # "crashed"
    /\ ~game_over
    /\ \A i \in 1..Len(password) : Admissible(password[i]) /\ password[i] # " "

\* C20: for every seed the player who types the script built for it, with
\* accepted characters and no key flagged, reaches all_rules_satisfied.
C20_EverySeedWinnable == <>Won

C20_Witness ==
    /\ Won
    /\ congratulations
    /\ next_look_and_say = <<"1", "1", "1", "3", "2", "1", "3", "2", "1", "1">>
    /\ password = WinningScript(next_look_and_say)

=============================================================================
